---- MODULE Spec2Model ----
(***************************************************************************)
(* Model of the watermarking core of Tastefully-Stained:                   *)
(*   backend/watermark_engine/core/dct_processor.py    (DCTWatermarker)    *)
(*   backend/watermark_engine/core/dwt_processor.py    (DWTWatermarker)    *)
(*   backend/watermark_engine/core/hybrid_algorithm.py                     *)
(*                                       (HybridWatermarkOrchestrator)     *)
(* and of the utilities and services around it:                            *)
(*   utils/config.py, utils/logger.py, utils/image_loader.py,              *)
(*   api/middleware.py, c2pa/manifest_builder.py,                          *)
(*   blockchain/ethereum_anchor.py                                         *)
(*                                                                         *)
(* Floats are fixed-point: a strength or a confidence x is held as the     *)
(* integer 10 * x (strength) or 100 * x (confidence).  An optional         *)
(* argument or an Optional[...] value is a set with at most one element:   *)
(* {} is "omitted" / None.  bytes are sequences of byte values.            *)
(***************************************************************************)
EXTENDS Integers, Sequences, FiniteSets, TLC

VARIABLES
    dct,     \* the caller's DCTWatermarker: {} until one was constructed
    dwt,     \* the caller's DWTWatermarker: {} until one was constructed
    orch,    \* the caller's HybridWatermarkOrchestrator: {} until constructed
    image,   \* the caller's pixel buffer (numpy array) handed to the calls
    ncalls,  \* number of embed / extract / analyze / metrics calls made
    last     \* the most recent call: operation, arguments, outcome

\* utils/config.py
VARIABLES
    environ,        \* os.environ: variable name -> {} (unset) or {value}
    config_cache,   \* the lru_cache(maxsize=1) of get_config: {} or {Config}
    config_loads,   \* number of Config() instances created so far
    config_last     \* the most recent get_config / reload_config / to_dict

\* c2pa/manifest_builder.py, blockchain/ethereum_anchor.py
VARIABLES
    builder,        \* the caller's ManifestBuilder: {} until constructed
    anchor,         \* the caller's EthereumAnchor: {} until constructed
    service_last    \* the most recent call on either: arguments, outcome

\* utils/logger.py and the logging module
VARIABLES
    log_factory,    \* logging's process-wide log-record factory
    contexts,       \* the LogContext instances: context, _old_factory
    active,         \* the instances whose with-block is open, oldest first
    discipline,     \* how the with-blocks were entered and left so far
    log_last        \* the most recent creation of a log record

\* api/middleware.py
VARIABLES
    limiter,        \* the middleware made by create_rate_limiter: {} until made
    minute,         \* the clock, in whole minutes
    arrived,        \* number of requests that reached the middleware
    forwarded       \* the minute of each request passed on to call_next

\* utils/image_loader.py
VARIABLES
    detected        \* the most recent detect_format call: source and result

coreVars == <<dct, dwt, orch, image, ncalls, last>>
configVars == <<environ, config_cache, config_loads, config_last>>
serviceVars == <<builder, anchor, service_last>>
logVars == <<log_factory, contexts, active, discipline, log_last>>
rateVars == <<limiter, minute, arrived, forwarded>>
formatVars == <<detected>>
utilVars == <<configVars, serviceVars, logVars, rateVars, formatVars>>

vars == <<coreVars, utilVars>>

----------------------------------------------------------------------------
(* Bounds of the model *)

\* block_size arguments range over -MaxBlockSize .. MaxBlockSize
MaxBlockSize == 8
\* level arguments range over -1 .. MaxLevel
MaxLevel == 2
\* number of embed / extract / analyze / metrics calls in one behaviour
MaxCalls == 2
\* Config() instances created by get_config / reload_config
MaxLoads == 3
\* LogContext instances of the process
NumContexts == 2
\* with-blocks of LogContext open at a time
MaxActive == 2
\* requests sent to the rate limiter, and minutes the clock runs
MaxRequests == 4
MaxMinutes == 3

----------------------------------------------------------------------------
(* Literals of the source *)

\* 0.0 and 1.0 of "0.0 <= strength <= 1.0", in tenths
StrengthMin == 0
StrengthMax == 10
\* defaults of DCTWatermarker.__init__(strength=0.5, block_size=8)
DefaultDCTStrength == 5
DefaultBlockSize == 8
\* defaults of DWTWatermarker.__init__(wavelet='db4', level=3, strength=0.3)
DefaultWavelet == "db4"
DefaultLevel == 3
DefaultDWTStrength == 3

SUPPORTED_WAVELETS == <<"db4", "db2", "haar", "sym4", "coif1">>

\* class WatermarkStrategy(Enum): the values of the members
DCT_PRIMARY == "dct_primary"
DWT_PRIMARY == "dwt_primary"
HYBRID_DUAL == "hybrid_dual"
AUTO == "auto"
WatermarkStrategy == {DCT_PRIMARY, DWT_PRIMARY, HYBRID_DUAL, AUTO}

----------------------------------------------------------------------------
(* Inputs *)

StrengthValues == {0 - 1, 0, 10, 11}
BlockSizeValues == (0 - MaxBlockSize)..MaxBlockSize
WaveletValues == {SUPPORTED_WAVELETS[i] : i \in DOMAIN SUPPORTED_WAVELETS}
                     \cup {"invalid_wavelet"}
LevelValues == (0 - 1)..MaxLevel

\* an argument that may be omitted
Optional(S) == {{}} \cup {{x} : x \in S}
\* binding of a parameter that has a default value
Bind(arg, default) == IF arg = {} THEN default ELSE CHOOSE x \in arg : TRUE

\* the element of a set of one element
The(S) == CHOOSE x \in S : TRUE

\* b"TS", b"test" and b"Tastefully Stained Test Watermark"
PayloadTS == <<84, 83>>
PayloadTest == <<116, 101, 115, 116>>
PayloadSample ==
    <<84, 97, 115, 116, 101, 102, 117, 108, 108, 121, 32,
      83, 116, 97, 105, 110, 101, 100, 32, 84, 101, 115, 116, 32,
      87, 97, 116, 101, 114, 109, 97, 114, 107>>
Payloads == {PayloadTS, PayloadTest, PayloadSample}

\* A numpy array: shape, element type, and its elements.  The arrays drawn
\* here are np.full(shape, fill); element i is the value of the pair
\* <<i, v>> in writes when there is one, fill otherwise.
Array(shape, dtype, fill) ==
    [shape |-> shape, dtype |-> dtype, fill |-> fill, writes |-> {}]
Images == { Array(<<256, 256>>, "uint8", 128),
            Array(<<512, 512, 3>>, "uint8", 200),
            Array(<<4, 4>>, "float32", 1) }

----------------------------------------------------------------------------
(* Python's int & int on unbounded two's-complement integers *)

RECURSIVE BitAnd(_, _)
BitAnd(a, b) ==
    IF a = 0 \/ b = 0 THEN 0
    ELSE IF a = 0 - 1 THEN b
    ELSE IF b = 0 - 1 THEN a
    ELSE 2 * BitAnd(a \div 2, b \div 2) + (a % 2) * (b % 2)

----------------------------------------------------------------------------
(* Outcome of a call.  The logger.info calls of the methods emit a record  *)
(* and change nothing a later call reads; they are not part of an outcome. *)

\* what a call left behind: how it ended, and what it returned
Outcome(kind, exc, msg) ==
    [kind |-> kind,          \* "return" or "raise"
     exc |-> exc,            \* class of the exception raised
     msg |-> msg,            \* its message
     buffer |-> {},          \* the array returned, if one was
     data |-> {},            \* the bytes returned, if any were
     confidence |-> 0,       \* ExtractionResult.confidence, in hundredths
     analyzer_calls |-> 0,   \* calls of analyze_image_characteristics made
     strategy_used |-> {},   \* strategy the call went on with, if any
     attempts |-> <<>>]      \* decode attempts made, in order: the votes
                             \* decoded and the confidence reached

Raise(exc, msg) == Outcome("raise", exc, msg)
Return == Outcome("return", "", "")

----------------------------------------------------------------------------
(* dct_processor.py *)

\* __init__ with the strength compared strictly: 0.0 < strength < 1.0
DCTWatermarker__init__OpenInterval(strength, block_size) ==
    IF ~(StrengthMin < strength /\ strength < StrengthMax)
    THEN [kind |-> "raise", exc |-> "ValueError",
          msg |-> "Strength must be in range [0.0, 1.0]", self |-> {}]
    ELSE IF BitAnd(block_size, block_size - 1) # 0
    THEN [kind |-> "raise", exc |-> "ValueError",
          msg |-> "Block size must be a power of 2", self |-> {}]
    ELSE [kind |-> "return", exc |-> "", msg |-> "",
          self |-> {[strength |-> strength, block_size |-> block_size]}]

\* DCTWatermarker.__init__(self, strength, block_size): the exception raised,
\* or the attributes of the new object
DCTWatermarker__init__(strength, block_size) ==
    IF ~(StrengthMin <= strength /\ strength <= StrengthMax)
    THEN [kind |-> "raise", exc |-> "ValueError",
          msg |-> "Strength must be in range [0.0, 1.0]", self |-> {}]
    ELSE IF BitAnd(block_size, block_size - 1) # 0
    THEN [kind |-> "raise", exc |-> "ValueError",
          msg |-> "Block size must be a power of 2", self |-> {}]
    ELSE [kind |-> "return", exc |-> "", msg |-> "",
          self |-> {[strength |-> strength, block_size |-> block_size]}]

\* embed_watermark working in place: it writes element 1 of the caller's array
\* before it raises
DCTWatermarker_embed_watermark_InPlace(self, img, watermark_data) ==
    [outcome |-> Raise("NotImplementedError",
                       "DCT embedding will be implemented in Phase 2"),
     image |-> [img EXCEPT !.writes = @ \cup {<<1, 0>>}],
     self |-> self]

\* DCTWatermarker.embed_watermark(self, image, watermark_data): the outcome,
\* the caller's array and the object after the call
DCTWatermarker_embed_watermark(self, img, watermark_data) ==
    [outcome |-> Raise("NotImplementedError",
                       "DCT embedding will be implemented in Phase 2"),
     image |-> img,
     self |-> self]

\* DCTWatermarker.extract_watermark(self, image)
DCTWatermarker_extract_watermark(self, img) ==
    [outcome |-> Raise("NotImplementedError",
                       "DCT extraction will be implemented in Phase 2"),
     image |-> img,
     self |-> self]

----------------------------------------------------------------------------
(* dwt_processor.py *)

\* __init__ with the level compared with 0 instead of 1
DWTWatermarker__init__LevelZero(wavelet, level, strength) ==
    IF ~(\E i \in DOMAIN SUPPORTED_WAVELETS : SUPPORTED_WAVELETS[i] = wavelet)
    THEN [kind |-> "raise", exc |-> "ValueError",
          msg |-> "Unsupported wavelet", self |-> {}]
    ELSE IF level < 0
    THEN [kind |-> "raise", exc |-> "ValueError",
          msg |-> "Level must be positive", self |-> {}]
    ELSE IF ~(StrengthMin <= strength /\ strength <= StrengthMax)
    THEN [kind |-> "raise", exc |-> "ValueError",
          msg |-> "Strength must be in range [0.0, 1.0]", self |-> {}]
    ELSE [kind |-> "return", exc |-> "", msg |-> "",
          self |-> {[wavelet |-> wavelet, level |-> level,
                     strength |-> strength]}]

\* DWTWatermarker.__init__(self, wavelet, level, strength)
DWTWatermarker__init__(wavelet, level, strength) ==
    IF ~(\E i \in DOMAIN SUPPORTED_WAVELETS : SUPPORTED_WAVELETS[i] = wavelet)
    THEN [kind |-> "raise", exc |-> "ValueError",
          msg |-> "Unsupported wavelet", self |-> {}]
    ELSE IF level < 1
    THEN [kind |-> "raise", exc |-> "ValueError",
          msg |-> "Level must be positive", self |-> {}]
    ELSE IF ~(StrengthMin <= strength /\ strength <= StrengthMax)
    THEN [kind |-> "raise", exc |-> "ValueError",
          msg |-> "Strength must be in range [0.0, 1.0]", self |-> {}]
    ELSE [kind |-> "return", exc |-> "", msg |-> "",
          self |-> {[wavelet |-> wavelet, level |-> level,
                     strength |-> strength]}]

\* DWTWatermarker.embed_watermark(self, image, watermark_data)
DWTWatermarker_embed_watermark(self, img, watermark_data) ==
    [outcome |-> Raise("NotImplementedError",
                       "DWT embedding will be implemented in Phase 2"),
     image |-> img,
     self |-> self]

\* extract_watermark returning b"" where nothing was extracted
DWTWatermarker_extract_watermark_Empty(self, img) ==
    [outcome |-> [Return EXCEPT !.data = {<<>>}],
     image |-> img,
     self |-> self]

\* DWTWatermarker.extract_watermark(self, image)
DWTWatermarker_extract_watermark(self, img) ==
    [outcome |-> Raise("NotImplementedError",
                       "DWT extraction will be implemented in Phase 2"),
     image |-> img,
     self |-> self]

\* DWTWatermarker.calculate_quality_metrics(self, original, watermarked)
DWTWatermarker_calculate_quality_metrics(self, original, watermarked) ==
    [outcome |-> Raise("NotImplementedError",
                       "Quality metrics will be implemented in Phase 2"),
     image |-> original,
     self |-> self]

----------------------------------------------------------------------------
(* hybrid_algorithm.py *)

\* __init__ building both default engines as soon as one engine is missing
HybridWatermarkOrchestrator__init__BothOrNone(dct_watermarker, dwt_watermarker) ==
    LET missing == dct_watermarker = {} \/ dwt_watermarker = {}
        d == IF missing
             THEN DCTWatermarker__init__(DefaultDCTStrength, DefaultBlockSize)
             ELSE [kind |-> "return", exc |-> "", msg |-> "",
                   self |-> dct_watermarker]
        w == IF missing
             THEN DWTWatermarker__init__(DefaultWavelet, DefaultLevel,
                                         DefaultDWTStrength)
             ELSE [kind |-> "return", exc |-> "", msg |-> "",
                   self |-> dwt_watermarker]
    IN  IF d.kind = "raise"
        THEN [kind |-> "raise", exc |-> d.exc, msg |-> d.msg, self |-> {}]
        ELSE IF w.kind = "raise"
        THEN [kind |-> "raise", exc |-> w.exc, msg |-> w.msg, self |-> {}]
        ELSE [kind |-> "return", exc |-> "", msg |-> "",
              self |-> {[dct_watermarker |-> d.self,
                         dwt_watermarker |-> w.self]}]

\* HybridWatermarkOrchestrator.__init__(self, dct_watermarker, dwt_watermarker):
\* an engine that was not passed in is built with the engine's defaults, and
\* an exception of that constructor would leave __init__
HybridWatermarkOrchestrator__init__(dct_watermarker, dwt_watermarker) ==
    LET d == IF dct_watermarker = {}
             THEN DCTWatermarker__init__(DefaultDCTStrength, DefaultBlockSize)
             ELSE [kind |-> "return", exc |-> "", msg |-> "",
                   self |-> dct_watermarker]
        w == IF dwt_watermarker = {}
             THEN DWTWatermarker__init__(DefaultWavelet, DefaultLevel,
                                         DefaultDWTStrength)
             ELSE [kind |-> "return", exc |-> "", msg |-> "",
                   self |-> dwt_watermarker]
    IN  IF d.kind = "raise"
        THEN [kind |-> "raise", exc |-> d.exc, msg |-> d.msg, self |-> {}]
        ELSE IF w.kind = "raise"
        THEN [kind |-> "raise", exc |-> w.exc, msg |-> w.msg, self |-> {}]
        ELSE [kind |-> "return", exc |-> "", msg |-> "",
              self |-> {[dct_watermarker |-> d.self,
                         dwt_watermarker |-> w.self]}]

\* HybridWatermarkOrchestrator.embed_robust_watermark(self, image,
\* watermark_data, strategy): logs strategy.value and raises; neither the
\* analyzer nor an engine is called
HybridWatermarkOrchestrator_embed_robust_watermark(self, img, watermark_data, strategy) ==
    [outcome |-> Raise("NotImplementedError",
                       "Hybrid embedding will be implemented in Phase 2"),
     image |-> img,
     self |-> self]

\* HybridWatermarkOrchestrator.extract_watermark(self, image)
HybridWatermarkOrchestrator_extract_watermark(self, img) ==
    [outcome |-> Raise("NotImplementedError",
                       "Hybrid extraction will be implemented in Phase 2"),
     image |-> img,
     self |-> self]

\* HybridWatermarkOrchestrator.analyze_image_characteristics(self, image)
HybridWatermarkOrchestrator_analyze_image_characteristics(self, img) ==
    [outcome |-> Raise("NotImplementedError",
                       "Image analysis will be implemented in Phase 2"),
     image |-> img,
     self |-> self]

----------------------------------------------------------------------------
(* utils/config.py.  Text is a string; the text of a port number is the    *)
(* sequence of its characters, so that int() and str() are computed.       *)

\* class Environment(str, Enum)
Environment == {"development", "staging", "production", "testing"}

\* str.lower() on the texts of the model
Lower(s) ==
    CASE s = "Staging" -> "staging"
      [] s = "PRODUCTION" -> "production"
      [] s = "True" -> "true"
      [] OTHER -> s

Digits == <<"0", "1", "2", "3", "4", "5", "6", "7", "8", "9">>

DigitValue(c) == (CHOOSE i \in DOMAIN Digits : Digits[i] = c) - 1

IsDecimal(s) ==
    /\ Len(s) >= 1
    /\ \A i \in DOMAIN s : \E j \in DOMAIN Digits : Digits[j] = s[i]

RECURSIVE DecimalValue(_)
DecimalValue(s) ==
    IF s = <<>> THEN 0
    ELSE 10 * DecimalValue(SubSeq(s, 1, Len(s) - 1)) + DigitValue(s[Len(s)])

\* int(s): {} stands for ValueError
int(s) == IF IsDecimal(s) THEN {DecimalValue(s)} ELSE {}

\* str(n) for n >= 0
RECURSIVE str(_)
str(n) ==
    IF n < 10 THEN <<Digits[n + 1]>>
    ELSE str(n \div 10) \o <<Digits[(n % 10) + 1]>>

prefix == "TASTEFULLY_STAINED_"

\* the variables load_from_env reads, without the prefix
EnvNames == {"ENVIRONMENT", "DEBUG", "LOG_LEVEL", "SECRET_KEY",
             "DATABASE_HOST", "DATABASE_PORT", "DATABASE_NAME",
             "DATABASE_USER", "DATABASE_PASSWORD",
             "REDIS_HOST", "REDIS_PORT", "REDIS_PASSWORD",
             "ETHEREUM_PROVIDER_URL", "ETHEREUM_PRIVATE_KEY",
             "API_HOST", "API_PORT"}

\* os.getenv(f"{prefix}{name}", default)
os_getenv(env, name, default) == Bind(env[name], default)

\* Config(): the defaults of the dataclasses; id tells instances apart
Config__init__(id) ==
    [id |-> id,
     environment |-> "development",
     debug |-> TRUE,
     log_level |-> "INFO",
     secret_key |-> "change-me-in-production",
     database |-> [host |-> "localhost", port |-> 5432,
                   name |-> "tastefully_stained", user |-> "postgres",
                   password |-> ""],
     redis |-> [host |-> "localhost", port |-> 6379, password |-> ""],
     blockchain |-> [ethereum_provider_url |-> "",
                     ethereum_private_key |-> ""],
     api |-> [host |-> "0.0.0.0", port |-> 8000]]

\* Config.load_from_env(self): [kind, exc, self]; self is {} when it raised
Config_load_from_env(self, env) ==
    LET env_str == os_getenv(env, "ENVIRONMENT", "development")
        database_port == int(os_getenv(env, "DATABASE_PORT",
                                       str(self.database.port)))
        redis_port == int(os_getenv(env, "REDIS_PORT", str(self.redis.port)))
        api_port == int(os_getenv(env, "API_PORT", str(self.api.port)))
    IN  IF \/ Lower(env_str) \notin Environment
           \/ database_port = {}
           \/ redis_port = {}
           \/ api_port = {}
        THEN [kind |-> "raise", exc |-> "ValueError", self |-> {}]
        ELSE [kind |-> "return", exc |-> "", self |-> {
            [id |-> self.id,
             environment |-> Lower(env_str),
             debug |-> (Lower(os_getenv(env, "DEBUG", "true")) = "true"),
             log_level |-> os_getenv(env, "LOG_LEVEL", "INFO"),
             secret_key |-> os_getenv(env, "SECRET_KEY", self.secret_key),
             database |->
                 [host |-> os_getenv(env, "DATABASE_HOST", self.database.host),
                  port |-> Bind(database_port, 0),
                  name |-> os_getenv(env, "DATABASE_NAME", self.database.name),
                  user |-> os_getenv(env, "DATABASE_USER", self.database.user),
                  password |-> os_getenv(env, "DATABASE_PASSWORD",
                                         self.database.password)],
             redis |->
                 [host |-> os_getenv(env, "REDIS_HOST", self.redis.host),
                  port |-> Bind(redis_port, 0),
                  password |-> os_getenv(env, "REDIS_PASSWORD",
                                         self.redis.password)],
             blockchain |->
                 [ethereum_provider_url |->
                      os_getenv(env, "ETHEREUM_PROVIDER_URL",
                                self.blockchain.ethereum_provider_url),
                  ethereum_private_key |->
                      os_getenv(env, "ETHEREUM_PRIVATE_KEY",
                                self.blockchain.ethereum_private_key)],
             api |-> [host |-> os_getenv(env, "API_HOST", self.api.host),
                      port |-> Bind(api_port, 0)]]}]

\* to_dict showing the secrets as they are
Config_to_dict_Plain(self) ==
    [environment |-> self.environment,
     debug |-> self.debug,
     log_level |-> self.log_level,
     database_host |-> self.database.host,
     redis_host |-> self.redis.host,
     api_port |-> self.api.port,
     secret_key |-> self.secret_key,
     database_password |-> self.database.password]

\* Config.to_dict(self)
Config_to_dict(self) ==
    [environment |-> self.environment,
     debug |-> self.debug,
     log_level |-> self.log_level,
     database_host |-> self.database.host,
     redis_host |-> self.redis.host,
     api_port |-> self.api.port,
     secret_key |-> IF self.secret_key # "" THEN "***" ELSE "",
     database_password |-> IF self.database.password # "" THEN "***" ELSE ""]

\* get_config that loads on every call
get_config_Uncached(cache, env, id) ==
    LET r == Config_load_from_env(Config__init__(id), env)
    IN  [kind |-> r.kind, exc |-> r.exc, result |-> r.self,
         cache |-> r.self, loads |-> 1]

\* @lru_cache(maxsize=1) get_config(): cache is the cache before the call,
\* id the identity of the Config the call creates if it creates one; a call
\* that raises is not cached
get_config(cache, env, id) ==
    IF cache # {}
    THEN [kind |-> "return", exc |-> "", result |-> cache,
          cache |-> cache, loads |-> 0]
    ELSE LET r == Config_load_from_env(Config__init__(id), env)
         IN  [kind |-> r.kind, exc |-> r.exc, result |-> r.self,
              cache |-> r.self, loads |-> 1]

\* reload_config that puts the former instance back when the load fails
reload_config_Restoring(cache, env, id) ==
    LET r == get_config({}, env, id)
    IN  IF r.kind = "raise" THEN [r EXCEPT !.cache = cache] ELSE r

\* reload_config(): get_config.cache_clear(); return get_config()
reload_config(cache, env, id) == get_config({}, env, id)

\* a result of the configuration functions: the Config returned (if any),
\* the dictionary returned (if any), the number of Config() instances the
\* call created, and the cache as it was before the call
ConfigCall(op, kind, exc, result, dict, loads, cached_before) ==
    [op |-> op, kind |-> kind, exc |-> exc, result |-> result,
     dict |-> dict, loads |-> loads, cached_before |-> cached_before]

\* a fresh process: nothing of the prefix is set, get_config was never called
ConfigInit ==
    /\ environ = [n \in EnvNames |-> {}]
    /\ config_cache = {}
    /\ config_loads = 0
    /\ config_last = ConfigCall("", "return", "", {}, {}, 0, {})

----------------------------------------------------------------------------
(* c2pa/manifest_builder.py *)

\* ManifestBuilder.SUPPORTED_FORMATS
SUPPORTED_FORMATS ==
    [m \in {"image/jpeg", "image/png", "image/webp", "image/avif",
            "image/heic", "video/mp4"} |->
        CASE m = "image/jpeg" -> ".jpg"
          [] m = "image/png" -> ".png"
          [] m = "image/webp" -> ".webp"
          [] m = "image/avif" -> ".avif"
          [] m = "image/heic" -> ".heic"
          [] m = "video/mp4" -> ".mp4"]

DefaultMimeType == "image/png"
DefaultClaimGenerator == "Tastefully-Stained/0.1.0"

\* ManifestBuilder.__init__(self, certificate_path, private_key_path,
\*                          claim_generator)
ManifestBuilder__init__(certificate_path, private_key_path, claim_generator) ==
    [certificate_path |-> certificate_path,
     private_key_path |-> private_key_path,
     claim_generator |-> claim_generator]

\* create_manifest that leaves the format to the later stages
ManifestBuilder_create_manifest_Unchecked(self, content_bytes, title, mime_type) ==
    [outcome |-> Raise("NotImplementedError",
                       "Manifest creation will be implemented in Phase 3"),
     self |-> self]

\* ManifestBuilder.create_manifest(self, content_bytes, title, mime_type)
ManifestBuilder_create_manifest(self, content_bytes, title, mime_type) ==
    IF mime_type \notin DOMAIN SUPPORTED_FORMATS
    THEN [outcome |-> Raise("ValueError", "Unsupported format"),
          self |-> self]
    ELSE [outcome |-> Raise("NotImplementedError",
                            "Manifest creation will be implemented in Phase 3"),
          self |-> self]

----------------------------------------------------------------------------
(* blockchain/ethereum_anchor.py *)

\* EthereumAnchor.NETWORKS
NETWORKS ==
    [ethereum_mainnet |-> 1,
     ethereum_goerli |-> 5,
     ethereum_sepolia |-> 11155111,
     polygon_mainnet |-> 137,
     polygon_mumbai |-> 80001,
     arbitrum_one |-> 42161]

DefaultNetwork == "ethereum_sepolia"

\* __init__ taking the chain id of the default network
EthereumAnchor__init__DefaultChain(provider_url, private_key, contract_address, network) ==
    IF network \notin DOMAIN NETWORKS
    THEN [kind |-> "raise", exc |-> "ValueError",
          msg |-> "Unsupported network", self |-> {}]
    ELSE [kind |-> "return", exc |-> "", msg |-> "",
          self |-> {[provider_url |-> provider_url,
                     private_key |-> private_key,
                     contract_address |-> contract_address,
                     network |-> network,
                     chain_id |-> NETWORKS[DefaultNetwork],
                     _web3 |-> {},
                     _contract |-> {}]}]

\* EthereumAnchor.__init__(self, provider_url, private_key, contract_address,
\*                         network)
EthereumAnchor__init__(provider_url, private_key, contract_address, network) ==
    IF network \notin DOMAIN NETWORKS
    THEN [kind |-> "raise", exc |-> "ValueError",
          msg |-> "Unsupported network", self |-> {}]
    ELSE [kind |-> "return", exc |-> "", msg |-> "",
          self |-> {[provider_url |-> provider_url,
                     private_key |-> private_key,
                     contract_address |-> contract_address,
                     network |-> network,
                     chain_id |-> NETWORKS[network],
                     _web3 |-> {},
                     _contract |-> {}]}]

\* await EthereumAnchor.anchor_watermark(self, watermark_hash, content_id)
EthereumAnchor_anchor_watermark(self, watermark_hash, content_id) ==
    [outcome |-> Raise("NotImplementedError",
                       "Blockchain anchoring will be implemented in Phase 5"),
     self |-> self]

\* await EthereumAnchor.verify_anchor(self, watermark_hash)
EthereumAnchor_verify_anchor(self, watermark_hash) ==
    [outcome |-> Raise("NotImplementedError",
                       "Anchor verification will be implemented in Phase 5"),
     self |-> self]

\* await EthereumAnchor.get_anchor_history(self, content_id)
EthereumAnchor_get_anchor_history(self, content_id) ==
    [outcome |-> Raise("NotImplementedError",
                       "Anchor history will be implemented in Phase 5"),
     self |-> self]

\* EthereumAnchor.estimate_gas(self)
EthereumAnchor_estimate_gas(self) ==
    [outcome |-> Raise("NotImplementedError",
                       "Gas estimation will be implemented in Phase 5"),
     self |-> self]

\* a call on the builder or the anchor: the mime_type or network argument as
\* given ({} when omitted or not a parameter), and the outcome
ServiceCall(op, mime_type, network, outcome) ==
    [op |-> op, mime_type |-> mime_type, network |-> network,
     kind |-> outcome.kind, exc |-> outcome.exc, msg |-> outcome.msg]

ServiceInit ==
    /\ builder = {}
    /\ anchor = {}
    /\ service_last = ServiceCall("", {}, {}, Return)

----------------------------------------------------------------------------
(* utils/logger.py.  A log-record factory is 0, the factory of the logging *)
(* module that was installed before any LogContext was entered, or i > 0,  *)
(* a record_factory closure made by __enter__ of instance i.  A closure    *)
(* reads self._old_factory when it is called, and all closures of one      *)
(* instance capture the same self and the same context.                    *)

BaseFactory == 0

FieldKeys == {"request_id", "user_id"}

NoFields == [k \in FieldKeys |-> {}]

\* LogContext.__init__(self, **context): a keyword that is not given is {}
LogContext__init__(context) == [context |-> context, _old_factory |-> {}]

\* LogContext.__enter__(self) of instance i: the instances and the
\* process-wide factory afterwards
LogContext__enter__(ctxs, i, factory) ==
    [contexts |-> [ctxs EXCEPT ![i]._old_factory = {factory}],
     factory |-> i]

\* __exit__ that leaves the factory of the context installed
LogContext__exit__Keep(ctxs, i, factory) == factory

\* LogContext.__exit__(self, *args) of instance i: the process-wide factory
\* afterwards
LogContext__exit__(ctxs, i, factory) ==
    IF ctxs[i]._old_factory # {} THEN The(ctxs[i]._old_factory) ELSE factory

\* calls nested deeper than this many closures go round a cycle of
\* _old_factory references and end in RecursionError
ChainLimit == NumContexts

\* the call f(*args, **kwargs) of factory f, depth closures deep: the
\* record, or the error, and the number of record_factory closures that ran
RECURSIVE record_factory(_, _, _)
record_factory(ctxs, f, depth) ==
    IF f = BaseFactory
    THEN [kind |-> "return", exc |-> "", fields |-> NoFields, calls |-> 0]
    ELSE IF depth > ChainLimit
    THEN [kind |-> "raise", exc |-> "RecursionError", fields |-> NoFields,
          calls |-> depth]
    ELSE LET record == record_factory(ctxs, The(ctxs[f]._old_factory),
                                      depth + 1)
         IN  IF record.kind = "raise" THEN record
             ELSE [record EXCEPT
                      !.fields = [k \in FieldKeys |->
                                     IF ctxs[f].context[k] # {}
                                     THEN ctxs[f].context[k]
                                     ELSE record.fields[k]],
                      !.calls = @ + 1]

\* the keyword arguments of the i-th LogContext of the process:
\* LogContext(request_id=i) or LogContext(request_id=i, user_id=i)
ContextFields(i) ==
    [k \in FieldKeys |->
        IF k = "request_id" \/ i % 2 = 0 THEN {i} ELSE {}]

LogInit ==
    /\ log_factory = BaseFactory
    /\ contexts = [i \in 1..NumContexts |-> LogContext__init__(ContextFields(i))]
    /\ active = <<>>
    /\ discipline = [nested |-> TRUE, distinct |-> TRUE]
    /\ log_last = [kind |-> "return", exc |-> "", fields |-> NoFields,
                   calls |-> 0, active |-> <<>>]

----------------------------------------------------------------------------
(* api/middleware.py *)

DefaultRequestsPerMinute == 60

\* create_rate_limiter(requests_per_minute): the closure returned
create_rate_limiter(requests_per_minute) ==
    [requests_per_minute |-> requests_per_minute]

\* await rate_limit_middleware(request, call_next) at minute now, after the
\* requests whose minutes are in passed were passed on: whether call_next
\* was called
rate_limit_middleware(self, now, passed) == [call_next |-> TRUE]

RateInit ==
    /\ limiter = {}
    /\ minute = 0
    /\ arrived = 0
    /\ forwarded = <<>>

----------------------------------------------------------------------------
(* utils/image_loader.py.  A path is the sequence of its characters, bytes *)
(* are the sequence of their values.                                       *)

\* class ImageFormat(str, Enum)
ImageFormat == {"jpeg", "png", "webp", "avif", "heic", "tiff", "bmp",
                "unknown"}

UNKNOWN == "unknown"

\* ImageLoader.FORMAT_SIGNATURES: magic bytes, format
FORMAT_SIGNATURES ==
    << <<(<<255, 216, 255>>), "jpeg">>,
       <<(<<137, 80, 78, 71, 13, 10, 26, 10>>), "png">>,
       <<(<<82, 73, 70, 70>>), "webp">>,
       <<(<<0, 0, 0>>), "avif">> >>

\* ImageLoader.EXTENSION_MAP: extension, format
EXTENSION_MAP ==
    << <<(<<".", "j", "p", "g">>), "jpeg">>,
       <<(<<".", "j", "p", "e", "g">>), "jpeg">>,
       <<(<<".", "p", "n", "g">>), "png">>,
       <<(<<".", "w", "e", "b", "p">>), "webp">>,
       <<(<<".", "a", "v", "i", "f">>), "avif">>,
       <<(<<".", "h", "e", "i", "c">>), "heic">>,
       <<(<<".", "h", "e", "i", "f">>), "heic">>,
       <<(<<".", "t", "i", "f", "f">>), "tiff">>,
       <<(<<".", "t", "i", "f">>), "tiff">>,
       <<(<<".", "b", "m", "p">>), "bmp">> >>

\* key in mapping, mapping[key] for a mapping held as pairs
HasKey(mapping, key) == \E i \in DOMAIN mapping : mapping[i][1] = key

Lookup(mapping, key) ==
    mapping[CHOOSE i \in DOMAIN mapping : mapping[i][1] = key][2]

\* str.lower() on a sequence of characters
LowerChars(s) ==
    [i \in DOMAIN s |->
        CASE s[i] = "P" -> "p"
          [] s[i] = "N" -> "n"
          [] s[i] = "G" -> "g"
          [] s[i] = "J" -> "j"
          [] OTHER -> s[i]]

\* index of the last c in s, 0 if there is none (str.rfind, counted from 1)
RFind(s, c) ==
    IF \E i \in DOMAIN s : s[i] = c
    THEN CHOOSE i \in DOMAIN s :
             s[i] = c /\ \A j \in DOMAIN s : s[j] = c => j <= i
    ELSE 0

\* s without its trailing '/' characters
RECURSIVE StripSlashes(_)
StripSlashes(s) ==
    IF s # <<>> /\ s[Len(s)] = "/"
    THEN StripSlashes(SubSeq(s, 1, Len(s) - 1))
    ELSE s

\* Path(p).name: the final component
PathName(p) ==
    LET q == StripSlashes(p)
    IN  SubSeq(q, RFind(q, "/") + 1, Len(q))

\* Path(p).suffix: the name from its last '.', unless that is the first or
\* the last character of the name
PathSuffix(p) ==
    LET name == PathName(p)
        i == RFind(name, ".")
    IN  IF 1 < i /\ i < Len(name) THEN SubSeq(name, i, Len(name)) ELSE <<>>

\* a source argument of detect_format: a str or Path, or bytes
PathSource(kind, p) == [kind |-> kind, path |-> p, data |-> <<>>]
BytesSource(b) == [kind |-> "bytes", path |-> <<>>, data |-> b]

\* ImageLoader.detect_format(self, source)
ImageLoader_detect_format(source) ==
    IF /\ source.kind \in {"str", "Path"}
       /\ HasKey(EXTENSION_MAP, LowerChars(PathSuffix(source.path)))
    THEN Lookup(EXTENSION_MAP, LowerChars(PathSuffix(source.path)))
    ELSE UNKNOWN

FormatInit ==
    detected = [source |-> BytesSource(<<>>), format |-> UNKNOWN, calls |-> 0]

\* UTILINIT
UtilInit ==
    ConfigInit /\ ServiceInit /\ LogInit /\ RateInit /\ FormatInit

----------------------------------------------------------------------------
(* The caller: constructs the engines and the orchestrator, and calls them *)

\* arguments of a call; a parameter the operation does not have is empty
NoArgs ==
    [strength |-> {}, block_size |-> {}, wavelet |-> {}, level |-> {},
     watermark_data |-> <<>>, strategy |-> "",
     dct_watermarker |-> {}, dwt_watermarker |-> {}]

Call(op, args, outcome) == [op |-> op, args |-> args, outcome |-> outcome]

\* outcome of a constructor call, without the object (the caller binds it)
CtorOutcome(r) == Outcome(r.kind, r.exc, r.msg)

Init ==
    /\ dct = {}
    /\ dwt = {}
    /\ orch = {}
    /\ image \in Images
    /\ ncalls = 0
    /\ last = Call("", NoArgs, Return)
    /\ UtilInit

\* w = DCTWatermarker(strength, block_size), either argument possibly omitted
NewDCTWatermarker(strength, block_size) ==
    /\ dct = {}
    /\ LET r == DCTWatermarker__init__(Bind(strength, DefaultDCTStrength),
                                       Bind(block_size, DefaultBlockSize))
       IN  /\ dct' = r.self
           /\ last' = Call("DCTWatermarker.__init__",
                           [NoArgs EXCEPT !.strength = strength,
                                          !.block_size = block_size],
                           CtorOutcome(r))
    /\ UNCHANGED <<dwt, orch, image, ncalls, utilVars>>

\* w = DWTWatermarker(wavelet, level, strength), any argument possibly omitted
NewDWTWatermarker(wavelet, level, strength) ==
    /\ dwt = {}
    /\ LET r == DWTWatermarker__init__(Bind(wavelet, DefaultWavelet),
                                       Bind(level, DefaultLevel),
                                       Bind(strength, DefaultDWTStrength))
       IN  /\ dwt' = r.self
           /\ last' = Call("DWTWatermarker.__init__",
                           [NoArgs EXCEPT !.wavelet = wavelet,
                                          !.level = level,
                                          !.strength = strength],
                           CtorOutcome(r))
    /\ UNCHANGED <<dct, orch, image, ncalls, utilVars>>

\* o = HybridWatermarkOrchestrator(d, w): each of d, w is the caller's engine
\* or None
NewOrchestrator(d, w) ==
    /\ orch = {}
    /\ LET r == HybridWatermarkOrchestrator__init__(d, w)
       IN  /\ orch' = r.self
           /\ last' = Call("HybridWatermarkOrchestrator.__init__",
                           [NoArgs EXCEPT !.dct_watermarker = d,
                                          !.dwt_watermarker = w],
                           CtorOutcome(r))
    /\ UNCHANGED <<dct, dwt, image, ncalls, utilVars>>

\* dct.embed_watermark(image, watermark_data)
DCTEmbed(watermark_data) ==
    /\ dct # {}
    /\ ncalls < MaxCalls
    /\ LET r == DCTWatermarker_embed_watermark(The(dct), image, watermark_data)
       IN  /\ dct' = {r.self}
           /\ image' = r.image
           /\ last' = Call("DCTWatermarker.embed_watermark",
                           [NoArgs EXCEPT !.watermark_data = watermark_data],
                           r.outcome)
    /\ ncalls' = ncalls + 1
    /\ UNCHANGED <<dwt, orch, utilVars>>

\* dct.extract_watermark(image)
DCTExtract ==
    /\ dct # {}
    /\ ncalls < MaxCalls
    /\ LET r == DCTWatermarker_extract_watermark(The(dct), image)
       IN  /\ dct' = {r.self}
           /\ image' = r.image
           /\ last' = Call("DCTWatermarker.extract_watermark", NoArgs,
                           r.outcome)
    /\ ncalls' = ncalls + 1
    /\ UNCHANGED <<dwt, orch, utilVars>>

\* dwt.embed_watermark(image, watermark_data)
DWTEmbed(watermark_data) ==
    /\ dwt # {}
    /\ ncalls < MaxCalls
    /\ LET r == DWTWatermarker_embed_watermark(The(dwt), image, watermark_data)
       IN  /\ dwt' = {r.self}
           /\ image' = r.image
           /\ last' = Call("DWTWatermarker.embed_watermark",
                           [NoArgs EXCEPT !.watermark_data = watermark_data],
                           r.outcome)
    /\ ncalls' = ncalls + 1
    /\ UNCHANGED <<dct, orch, utilVars>>

\* dwt.extract_watermark(image)
DWTExtract ==
    /\ dwt # {}
    /\ ncalls < MaxCalls
    /\ LET r == DWTWatermarker_extract_watermark(The(dwt), image)
       IN  /\ dwt' = {r.self}
           /\ image' = r.image
           /\ last' = Call("DWTWatermarker.extract_watermark", NoArgs,
                           r.outcome)
    /\ ncalls' = ncalls + 1
    /\ UNCHANGED <<dct, orch, utilVars>>

\* dwt.calculate_quality_metrics(image, image)
DWTQualityMetrics ==
    /\ dwt # {}
    /\ ncalls < MaxCalls
    /\ LET r == DWTWatermarker_calculate_quality_metrics(The(dwt), image,
                                                         image)
       IN  /\ dwt' = {r.self}
           /\ image' = r.image
           /\ last' = Call("DWTWatermarker.calculate_quality_metrics", NoArgs,
                           r.outcome)
    /\ ncalls' = ncalls + 1
    /\ UNCHANGED <<dct, orch, utilVars>>

\* orch.embed_robust_watermark(image, watermark_data[, strategy])
OrchEmbed(watermark_data, strategy) ==
    /\ orch # {}
    /\ ncalls < MaxCalls
    /\ LET r == HybridWatermarkOrchestrator_embed_robust_watermark(
                    The(orch), image, watermark_data, Bind(strategy, AUTO))
       IN  /\ orch' = {r.self}
           /\ image' = r.image
           /\ last' = Call("HybridWatermarkOrchestrator.embed_robust_watermark",
                           [NoArgs EXCEPT !.watermark_data = watermark_data,
                                          !.strategy = Bind(strategy, AUTO)],
                           r.outcome)
    /\ ncalls' = ncalls + 1
    /\ UNCHANGED <<dct, dwt, utilVars>>

\* orch.extract_watermark(image)
OrchExtract ==
    /\ orch # {}
    /\ ncalls < MaxCalls
    /\ LET r == HybridWatermarkOrchestrator_extract_watermark(The(orch), image)
       IN  /\ orch' = {r.self}
           /\ image' = r.image
           /\ last' = Call("HybridWatermarkOrchestrator.extract_watermark",
                           NoArgs, r.outcome)
    /\ ncalls' = ncalls + 1
    /\ UNCHANGED <<dct, dwt, utilVars>>

\* orch.analyze_image_characteristics(image)
OrchAnalyze ==
    /\ orch # {}
    /\ ncalls < MaxCalls
    /\ LET r == HybridWatermarkOrchestrator_analyze_image_characteristics(
                    The(orch), image)
       IN  /\ orch' = {r.self}
           /\ image' = r.image
           /\ last' = Call(
                  "HybridWatermarkOrchestrator.analyze_image_characteristics",
                  NoArgs, r.outcome)
    /\ ncalls' = ncalls + 1
    /\ UNCHANGED <<dct, dwt, utilVars>>

\* arguments the repository's tests construct engines with:
\* strength=0.7, block_size=16, wavelet='haar', level=5
TestStrengths == {7}
TestBlockSizes == {16}
TestWavelets == {"haar"}
TestLevels == {5}

\* Construction of the engines and the orchestrator, over all the argument
\* values of the model
NextConstruct ==
    \/ \E s \in Optional(StrengthValues), b \in Optional(BlockSizeValues) :
           NewDCTWatermarker(s, b)
    \/ \E w \in Optional(WaveletValues), l \in Optional(LevelValues),
          s \in Optional(StrengthValues) :
           NewDWTWatermarker(w, l, s)
    \/ \E d \in {{}, dct}, w \in {{}, dwt} : NewOrchestrator(d, w)

\* the constructors do not take the image: one image is enough here
InitConstruct == Init /\ image.shape = <<256, 256>>

SpecConstruct == InitConstruct /\ [][NextConstruct]_vars

\* Construction as the tests do it, and every operation of the three classes
Next ==
    \/ \E s \in Optional(TestStrengths), b \in Optional(TestBlockSizes) :
           NewDCTWatermarker(s, b)
    \/ \E w \in Optional(TestWavelets), l \in Optional(TestLevels),
          s \in Optional(TestStrengths) :
           NewDWTWatermarker(w, l, s)
    \/ \E d \in {{}, dct}, w \in {{}, dwt} : NewOrchestrator(d, w)
    \/ \E p \in Payloads : DCTEmbed(p)
    \/ DCTExtract
    \/ \E p \in Payloads : DWTEmbed(p)
    \/ DWTExtract
    \/ DWTQualityMetrics
    \/ \E p \in Payloads, st \in Optional(WatermarkStrategy) : OrchEmbed(p, st)
    \/ OrchExtract
    \/ OrchAnalyze

Spec == Init /\ [][Next]_vars

----------------------------------------------------------------------------
(* utils/config.py: the process changes its environment and asks for the   *)
(* configuration                                                           *)

Port8080 == <<"8", "0", "8", "0">>
Port808o == <<"8", "0", "8", "o">>

\* values the environment variables are set to
EnvValues(name) ==
    CASE name = "ENVIRONMENT" -> {"Staging", "prod"}
      [] name = "SECRET_KEY" -> {"", "s3cr3t", "***"}
      [] name = "DATABASE_PASSWORD" -> {"hunter2"}
      [] name = "API_PORT" -> {Port8080, Port808o}
      [] OTHER -> {}

\* os.environ[prefix + name] = value
Setenv(name, value) ==
    /\ environ' = [environ EXCEPT ![name] = {value}]
    /\ UNCHANGED <<config_cache, config_loads, config_last>>
    /\ UNCHANGED <<coreVars, serviceVars, logVars, rateVars, formatVars>>

\* del os.environ[prefix + name]
Unsetenv(name) ==
    /\ environ[name] # {}
    /\ environ' = [environ EXCEPT ![name] = {}]
    /\ UNCHANGED <<config_cache, config_loads, config_last>>
    /\ UNCHANGED <<coreVars, serviceVars, logVars, rateVars, formatVars>>

\* get_config()
GetConfig ==
    /\ config_cache # {} \/ config_loads < MaxLoads
    /\ LET r == get_config(config_cache, environ, config_loads + 1)
       IN  /\ config_cache' = r.cache
           /\ config_loads' = config_loads + r.loads
           /\ config_last' = ConfigCall("get_config", r.kind, r.exc, r.result,
                                        {}, r.loads, config_cache)
    /\ UNCHANGED environ
    /\ UNCHANGED <<coreVars, serviceVars, logVars, rateVars, formatVars>>

\* reload_config()
ReloadConfig ==
    /\ config_loads < MaxLoads
    /\ LET r == reload_config(config_cache, environ, config_loads + 1)
       IN  /\ config_cache' = r.cache
           /\ config_loads' = config_loads + r.loads
           /\ config_last' = ConfigCall("reload_config", r.kind, r.exc,
                                        r.result, {}, r.loads, config_cache)
    /\ UNCHANGED environ
    /\ UNCHANGED <<coreVars, serviceVars, logVars, rateVars, formatVars>>

\* get_config().to_dict() while a Config is cached
ToDict ==
    /\ config_cache # {}
    /\ LET r == get_config(config_cache, environ, config_loads + 1)
       IN  /\ config_cache' = r.cache
           /\ config_loads' = config_loads + r.loads
           /\ config_last' = ConfigCall("to_dict", "return", "", r.result,
                                        {Config_to_dict(The(r.result))},
                                        r.loads, config_cache)
    /\ UNCHANGED environ
    /\ UNCHANGED <<coreVars, serviceVars, logVars, rateVars, formatVars>>

NextConfig ==
    \/ \E n \in EnvNames : \E v \in EnvValues(n) : Setenv(n, v)
    \/ \E n \in EnvNames : Unsetenv(n)
    \/ GetConfig
    \/ ReloadConfig
    \/ ToDict

SpecConfig == InitConstruct /\ [][NextConfig]_vars

----------------------------------------------------------------------------
(* The caller of the manifest builder and of the blockchain anchor *)

\* mime types the caller passes: the supported ones and some others
MimeValues == DOMAIN SUPPORTED_FORMATS
                  \cup {"application/pdf", "image/gif", "IMAGE/PNG", ""}

\* network names the caller passes: the supported ones and some others
NetworkValues == DOMAIN NETWORKS
                     \cup {"invalid_network", "Ethereum_Sepolia", ""}

\* builder = ManifestBuilder(certificate_path, private_key_path)
NewManifestBuilder(certificate_path, private_key_path) ==
    /\ builder = {}
    /\ builder' = {ManifestBuilder__init__(certificate_path, private_key_path,
                                           DefaultClaimGenerator)}
    /\ service_last' = ServiceCall("ManifestBuilder.__init__", {}, {}, Return)
    /\ UNCHANGED anchor
    /\ UNCHANGED <<coreVars, configVars, logVars, rateVars, formatVars>>

\* builder.create_manifest(content_bytes, title, mime_type), mime_type
\* possibly omitted
CreateManifest(content_bytes, title, mime_type) ==
    /\ builder # {}
    /\ LET r == ManifestBuilder_create_manifest(
                    The(builder), content_bytes, title,
                    Bind(mime_type, DefaultMimeType))
       IN  /\ builder' = {r.self}
           /\ service_last' = ServiceCall("ManifestBuilder.create_manifest",
                                          mime_type, {}, r.outcome)
    /\ UNCHANGED anchor
    /\ UNCHANGED <<coreVars, configVars, logVars, rateVars, formatVars>>

\* anchor = EthereumAnchor(provider_url, network=network), network possibly
\* omitted
NewEthereumAnchor(provider_url, network) ==
    /\ anchor = {}
    /\ LET r == EthereumAnchor__init__(provider_url, {}, {},
                                       Bind(network, DefaultNetwork))
       IN  /\ anchor' = r.self
           /\ service_last' = ServiceCall("EthereumAnchor.__init__", {},
                                          network, CtorOutcome(r))
    /\ UNCHANGED builder
    /\ UNCHANGED <<coreVars, configVars, logVars, rateVars, formatVars>>

\* the outcome r of an operation on the anchor
AnchorCall(op, r) ==
    /\ anchor' = {r.self}
    /\ service_last' = ServiceCall(op, {}, {}, r.outcome)
    /\ UNCHANGED builder
    /\ UNCHANGED <<coreVars, configVars, logVars, rateVars, formatVars>>

\* await anchor.anchor_watermark(watermark_hash, content_id)
AnchorWatermark(watermark_hash, content_id) ==
    /\ anchor # {}
    /\ AnchorCall("EthereumAnchor.anchor_watermark",
                  EthereumAnchor_anchor_watermark(The(anchor), watermark_hash,
                                                  content_id))

\* await anchor.verify_anchor(watermark_hash)
VerifyAnchor(watermark_hash) ==
    /\ anchor # {}
    /\ AnchorCall("EthereumAnchor.verify_anchor",
                  EthereumAnchor_verify_anchor(The(anchor), watermark_hash))

\* await anchor.get_anchor_history(content_id)
GetAnchorHistory(content_id) ==
    /\ anchor # {}
    /\ AnchorCall("EthereumAnchor.get_anchor_history",
                  EthereumAnchor_get_anchor_history(The(anchor), content_id))

\* anchor.estimate_gas()
EstimateGas ==
    /\ anchor # {}
    /\ AnchorCall("EthereumAnchor.estimate_gas",
                  EthereumAnchor_estimate_gas(The(anchor)))

NextService ==
    \/ \E c \in Optional({"cert.pem"}), k \in Optional({"key.pem"}) :
           NewManifestBuilder(c, k)
    \/ \E b \in {<<>>, PayloadTest}, t \in {"Test", ""},
          m \in Optional(MimeValues) :
           CreateManifest(b, t, m)
    \/ \E u \in {"https://sepolia.infura.io/v3/test", "test"},
          n \in Optional(NetworkValues) :
           NewEthereumAnchor(u, n)
    \/ \E h \in {"0x123"}, c \in {"content_id"} : AnchorWatermark(h, c)
    \/ \E h \in {"0x123"} : VerifyAnchor(h)
    \/ \E c \in {"content_id"} : GetAnchorHistory(c)
    \/ EstimateGas

SpecService == InitConstruct /\ [][NextService]_vars

----------------------------------------------------------------------------
(* The code that uses LogContext: with-blocks around logging calls *)

\* ctx.__enter__() at the start of `with ctx:`
Enter(i) ==
    /\ Len(active) < MaxActive
    /\ LET r == LogContext__enter__(contexts, i, log_factory)
       IN  /\ contexts' = r.contexts
           /\ log_factory' = r.factory
    /\ active' = Append(active, i)
    /\ discipline' = [discipline EXCEPT
                         !.distinct = @ /\ \A j \in DOMAIN active : active[j] # i]
    /\ UNCHANGED log_last
    /\ UNCHANGED <<coreVars, configVars, serviceVars, rateVars, formatVars>>

\* ctx.__exit__(...) at the end of the latest open `with ctx:` of instance i
Exit(i) ==
    /\ \E j \in DOMAIN active : active[j] = i
    /\ log_factory' = LogContext__exit__(contexts, i, log_factory)
    /\ LET j == CHOOSE j \in DOMAIN active :
                    /\ active[j] = i
                    /\ \A m \in DOMAIN active : active[m] = i => m <= j
       IN  active' = SubSeq(active, 1, j - 1)
                         \o SubSeq(active, j + 1, Len(active))
    /\ discipline' = [discipline EXCEPT
                         !.nested = @ /\ active[Len(active)] = i]
    /\ UNCHANGED <<contexts, log_last>>
    /\ UNCHANGED <<coreVars, configVars, serviceVars, rateVars, formatVars>>

\* logger.info(...): logging creates the record with the installed factory
Log ==
    /\ log_last' = [active |-> active] @@ record_factory(contexts, log_factory, 1)
    /\ UNCHANGED <<log_factory, contexts, active, discipline>>
    /\ UNCHANGED <<coreVars, configVars, serviceVars, rateVars, formatVars>>

NextLog ==
    \/ \E i \in 1..NumContexts : Enter(i)
    \/ \E i \in 1..NumContexts : Exit(i)
    \/ Log

SpecLog == InitConstruct /\ [][NextLog]_vars

----------------------------------------------------------------------------
(* Requests arriving at the rate limiter while time passes *)

\* limiter = create_rate_limiter(requests_per_minute), possibly omitted
CreateRateLimiter(requests_per_minute) ==
    /\ limiter = {}
    /\ limiter' = {create_rate_limiter(Bind(requests_per_minute,
                                            DefaultRequestsPerMinute))}
    /\ UNCHANGED <<minute, arrived, forwarded>>
    /\ UNCHANGED <<coreVars, configVars, serviceVars, logVars, formatVars>>

\* a request arrives: await limiter(request, call_next)
Request ==
    /\ limiter # {}
    /\ arrived < MaxRequests
    /\ arrived' = arrived + 1
    /\ LET r == rate_limit_middleware(The(limiter), minute, forwarded)
       IN  forwarded' = IF r.call_next THEN Append(forwarded, minute)
                        ELSE forwarded
    /\ UNCHANGED <<limiter, minute>>
    /\ UNCHANGED <<coreVars, configVars, serviceVars, logVars, formatVars>>

\* a minute passes
Tick ==
    /\ minute < MaxMinutes
    /\ minute' = minute + 1
    /\ UNCHANGED <<limiter, arrived, forwarded>>
    /\ UNCHANGED <<coreVars, configVars, serviceVars, logVars, formatVars>>

NextRate ==
    \/ \E n \in Optional(1..MaxRequests) : CreateRateLimiter(n)
    \/ Request
    \/ Tick

SpecRate == InitConstruct /\ [][NextRate]_vars

----------------------------------------------------------------------------
(* Callers of ImageLoader.detect_format *)

Dirs == {<<>>, <<"d", ".", "x", "/">>}
Stems == {<<>>, <<"a">>, <<"a", ".", "b">>}
Tails == {<<>>, <<".">>, <<"/">>,
          <<".", "j", "p", "g">>, <<".", "J", "p", "g">>,
          <<".", "j", "p", "e", "g">>,
          <<".", "p", "n", "g">>, <<".", "P", "N", "G">>,
          <<".", "p", "n", "g", "/">>,
          <<".", "w", "e", "b", "p">>, <<".", "a", "v", "i", "f">>,
          <<".", "h", "e", "i", "c">>, <<".", "h", "e", "i", "f">>,
          <<".", "t", "i", "f", "f">>, <<".", "t", "i", "f">>,
          <<".", "b", "m", "p">>, <<".", "g", "i", "f">>,
          <<"p", "n", "g">>}

\* file paths handed to detect_format
Paths == {d \o n \o t : d \in Dirs, n \in Stems, t \in Tails}

\* raw bytes handed to detect_format: the signatures alone and followed by a
\* byte, and bytes of no known format
ByteStrings ==
    {FORMAT_SIGNATURES[i][1] \o t :
         i \in DOMAIN FORMAT_SIGNATURES, t \in {<<>>, <<24>>}}
        \cup {<<>>, <<71, 73, 70, 56>>, <<255, 216>>}

Sources ==
    {PathSource(k, p) : k \in {"str", "Path"}, p \in Paths}
        \cup {BytesSource(b) : b \in ByteStrings}

\* loader.detect_format(source)
DetectFormat(source) ==
    /\ detected' = [source |-> source,
                    format |-> ImageLoader_detect_format(source),
                    calls |-> 1]
    /\ UNCHANGED <<coreVars, configVars, serviceVars, logVars, rateVars>>

NextFormat == \E source \in Sources : DetectFormat(source)

SpecFormat == InitConstruct /\ [][NextFormat]_vars


----------------------------------------------------------------------------
(* Vocabulary of the properties *)

EmbedOps == {"DCTWatermarker.embed_watermark",
             "DWTWatermarker.embed_watermark",
             "HybridWatermarkOrchestrator.embed_robust_watermark"}

IsPowerOfTwo(n) == \E k \in 0..MaxBlockSize : n = 2^k

\* the engines as constructed with no arguments
DefaultDCT == [strength |-> 5, block_size |-> 8]
DefaultDWT == [wavelet |-> "db4", level |-> 3, strength |-> 3]

\* extraction, by the object that embedded, from the array w
ExtractBy(op, w) ==
    IF op = "DCTWatermarker.embed_watermark"
    THEN DCTWatermarker_extract_watermark(The(dct), w).outcome
    ELSE IF op = "DWTWatermarker.embed_watermark"
    THEN DWTWatermarker_extract_watermark(The(dwt), w).outcome
    ELSE HybridWatermarkOrchestrator_extract_watermark(The(orch), w).outcome

\* the engine, or the orchestrator's engines, have the parameters that
\* Scenarios A and B of the specification embed b"TS" with (block size 8,
\* strength 0.5; level 3) into a 256 x 256 grayscale image
ScenarioEngines(op) ==
    IF op = "DCTWatermarker.embed_watermark" THEN dct = {DefaultDCT}
    ELSE IF op = "DWTWatermarker.embed_watermark" THEN dwt = {DefaultDWT}
    ELSE orch = {[dct_watermarker |-> {DefaultDCT},
                  dwt_watermarker |-> {DefaultDWT}]}

----------------------------------------------------------------------------
(* C1 .. C10 *)

\* C1: round trip.  An embed call of b"TS" into the 256 x 256 uint8 image of
\* Scenario A, by an engine or orchestrator with the scenario's parameters
\* (a payload the specification says fits), returns a watermarked array, and
\* extraction from that array returns b"TS" with confidence >= 0.95.
C1_RoundTrip ==
    (/\ last.op \in EmbedOps
     /\ ScenarioEngines(last.op)
     /\ image.shape = <<256, 256>> /\ image.dtype = "uint8"
     /\ last.args.watermark_data = PayloadTS)
    => /\ last.outcome.kind = "return"
       /\ \E w \in last.outcome.buffer :
              LET x == ExtractBy(last.op, w)
              IN  /\ x.kind = "return"
                  /\ x.data = {PayloadTS}
                  /\ (last.op = "HybridWatermarkOrchestrator.embed_robust_watermark"
                        => x.confidence >= 95)

\* C2: capacity boundary.  A DCT embed call into an image that is smaller than
\* one block_size x block_size tile (no whole tile, so a capacity of 0 bits,
\* below the length of any encoded payload) fails with CapacityExceeded.
C2_CapacityBoundary ==
    (/\ last.op = "DCTWatermarker.embed_watermark"
     /\ \A w \in dct : /\ image.shape[1] < w.block_size
                       /\ image.shape[2] < w.block_size)
    => /\ last.outcome.kind = "raise"
       /\ last.outcome.exc = "CapacityExceeded"

\* C3: determinism.  Two embed calls with the same payload, image and
\* parameters, one after the other on the same object, both produce a
\* watermarked array, and the two arrays are equal.
C3_Determinism ==
    [][ (/\ last.op \in EmbedOps
         /\ last'.op = last.op
         /\ last'.args = last.args
         /\ ncalls' = ncalls + 1
         /\ <<dct, dwt, orch, image>>' = <<dct, dwt, orch, image>>)
        => /\ last.outcome.kind = "return"
           /\ last'.outcome.kind = "return"
           /\ last.outcome.buffer # {}
           /\ last'.outcome.buffer = last.outcome.buffer ]_vars

C5_CallerImageUntouched == [][image' = image]_vars

\* an embed call and then a second call have ended in an error
C5_Witness ==
    /\ ncalls >= 2
    /\ last.outcome.kind = "raise"
    /\ image.writes = {}

\* C6: DCTWatermarker(strength, block_size) raises ValueError when strength is
\* below 0.0 or above 1.0, and then the caller has no watermarker; with a
\* strength in [0.0, 1.0] and a power of two as block size it returns, and
\* the object holds the strength given (0.5 when omitted).
C6_DCTStrengthValidated ==
    last.op = "DCTWatermarker.__init__" =>
        LET s == Bind(last.args.strength, 5)
            b == Bind(last.args.block_size, 8)
        IN  /\ (s < 0 \/ s > 10) =>
                  /\ last.outcome.kind = "raise"
                  /\ last.outcome.exc = "ValueError"
                  /\ dct = {}
            /\ (0 <= s /\ s <= 10 /\ IsPowerOfTwo(b)) =>
                  /\ last.outcome.kind = "return"
                  /\ dct = {[strength |-> s, block_size |-> b]}

\* a watermarker was constructed with strength 1.0
C6_Witness ==
    /\ last.op = "DCTWatermarker.__init__"
    /\ last.args.strength = {10}
    /\ \E w \in dct : w.strength = 10

\* C7: DCTWatermarker(strength, block_size) raises ValueError for every
\* block_size that is not a power of two, zero and the negative numbers
\* included, and every watermarker has a power of two as block_size.
C7_BlockSizePowerOfTwo ==
    /\ last.op = "DCTWatermarker.__init__" =>
           (~IsPowerOfTwo(Bind(last.args.block_size, 8)) =>
                /\ last.outcome.kind = "raise"
                /\ last.outcome.exc = "ValueError")
    /\ \A w \in dct : IsPowerOfTwo(w.block_size)

\* C8: DWTWatermarker(wavelet, level, strength) returns exactly when wavelet
\* is one of the five supported, level >= 1 and 0.0 <= strength <= 1.0, and
\* then holds the three arguments ('db4', 3, 0.3 when omitted); otherwise it
\* raises ValueError and the caller has no watermarker.
C8_DWTConstruction ==
    /\ last.op = "DWTWatermarker.__init__" =>
           LET w == Bind(last.args.wavelet, "db4")
               l == Bind(last.args.level, 3)
               s == Bind(last.args.strength, 3)
               valid == /\ w \in {"db4", "db2", "haar", "sym4", "coif1"}
                        /\ l >= 1
                        /\ 0 <= s /\ s <= 10
           IN  IF valid
               THEN /\ last.outcome.kind = "return"
                    /\ dwt = {[wavelet |-> w, level |-> l, strength |-> s]}
               ELSE /\ last.outcome.kind = "raise"
                    /\ last.outcome.exc = "ValueError"
                    /\ dwt = {}
    /\ \A o \in dwt : /\ o.wavelet \in {"db4", "db2", "haar", "sym4", "coif1"}
                      /\ o.level >= 1
                      /\ 0 <= o.strength /\ o.strength <= 10

\* a watermarker was constructed with level 1 and the other arguments omitted
C8_Witness ==
    /\ last.op = "DWTWatermarker.__init__"
    /\ last.args.level = {1}
    /\ last.args.wavelet = {}
    /\ last.args.strength = {}
    /\ dwt = {[wavelet |-> "db4", level |-> 1, strength |-> 3]}

\* C9: an orchestrator embed call with strategy AUTO calls the analyzer
\* exactly once and goes on with one of DCT_PRIMARY, DWT_PRIMARY, HYBRID_DUAL.
C9_AutoResolvedOnce ==
    (/\ last.op = "HybridWatermarkOrchestrator.embed_robust_watermark"
     /\ last.args.strategy = "auto")
    => /\ last.outcome.analyzer_calls = 1
       /\ \E st \in {"dct_primary", "dwt_primary", "hybrid_dual"} :
              last.outcome.strategy_used = {st}

----------------------------------------------------------------------------
(* C11 .. C20 *)

\* the operations on an image
CallOps == {"DCTWatermarker.embed_watermark",
            "DCTWatermarker.extract_watermark",
            "DWTWatermarker.embed_watermark",
            "DWTWatermarker.extract_watermark",
            "DWTWatermarker.calculate_quality_metrics",
            "HybridWatermarkOrchestrator.embed_robust_watermark",
            "HybridWatermarkOrchestrator.extract_watermark",
            "HybridWatermarkOrchestrator.analyze_image_characteristics"}

\* the order of the decode attempts of an orchestrator extraction
AttemptOrder == <<"combined", "dwt", "dct">>

\* C11: an orchestrator extraction returns a result; its decode attempts are
\* the combined votes first, then the DWT votes, then the DCT votes, as far
\* as it went; and the confidence returned is the largest of the attempts'.
C11_FallbackOrder ==
    last.op = "HybridWatermarkOrchestrator.extract_watermark" =>
        LET a == last.outcome.attempts
        IN  /\ last.outcome.kind = "return"
            /\ Len(a) >= 1 /\ Len(a) <= 3
            /\ \A i \in 1..Len(a) : a[i].votes = AttemptOrder[i]
            /\ \A i \in 1..Len(a) : a[i].confidence <= last.outcome.confidence
            /\ \E i \in 1..Len(a) : a[i].confidence = last.outcome.confidence

\* C12: when no decode attempt of an orchestrator extraction reaches the
\* confidence floor, whatever the floor is, the call returns (it does not
\* raise) a result with no payload; and a payload is never returned with a
\* confidence below the floor.
C12_NullPayloadBelowFloor ==
    last.op = "HybridWatermarkOrchestrator.extract_watermark" =>
        \A floor \in 1..100 :
            LET a == last.outcome.attempts
            IN  /\ (\A i \in 1..Len(a) : a[i].confidence < floor) =>
                       /\ last.outcome.kind = "return"
                       /\ last.outcome.data = {}
                /\ last.outcome.data # {} => last.outcome.confidence >= floor

\* the typed errors of the taxonomy
ErrorTaxonomy == {"InvalidParameter", "CapacityExceeded",
                  "NoWatermarkDetected", "CorruptedPayload"}

\* C14: every embed, extract and analyze call (and the quality metrics call)
\* on a constructed engine or orchestrator returns a result or ends in one of
\* the typed errors of the taxonomy; no other exception reaches the caller.
C14_OnlyTypedErrors ==
    last.op \in CallOps =>
        \/ last.outcome.kind = "return"
        \/ last.outcome.exc \in ErrorTaxonomy

C20_OrchestratorEngines ==
    /\ last.op = "HybridWatermarkOrchestrator.__init__" =>
           /\ last.outcome.kind = "return"
           /\ orch = {[dct_watermarker |->
                           IF last.args.dct_watermarker = {}
                           THEN {DefaultDCT}
                           ELSE last.args.dct_watermarker,
                       dwt_watermarker |->
                           IF last.args.dwt_watermarker = {}
                           THEN {DefaultDWT}
                           ELSE last.args.dwt_watermarker]}
    /\ \A o \in orch : o.dct_watermarker # {} /\ o.dwt_watermarker # {}

\* an orchestrator was constructed with the caller's DCT engine, which has
\* other parameters than the defaults, and without a DWT engine
C20_Witness ==
    /\ last.op = "HybridWatermarkOrchestrator.__init__"
    /\ last.args.dct_watermarker # {}
    /\ last.args.dct_watermarker # {DefaultDCT}
    /\ last.args.dwt_watermarker = {}
    /\ \E o \in orch : /\ o.dct_watermarker = dct
                       /\ o.dwt_watermarker = {DefaultDWT}

----------------------------------------------------------------------------
(* C21 .. C30 *)

\* C21: get_config returns the Config created by the most recent load:
\* a get_config that finds an instance cached returns that instance and
\* creates none (it does not read the environment), whatever the environment
\* is by then; a successful reload_config creates one instance, which is not
\* the one cached before it; what either returns is what stays cached, and
\* the cached instance is always the latest one created.
C21_ConfigSingleton ==
    /\ \A c \in config_cache : c.id = config_loads
    /\ (config_last.op \in {"get_config", "reload_config"}
            /\ config_last.kind = "return") =>
           /\ config_last.result # {}
           /\ config_last.result = config_cache
    /\ (config_last.op = "get_config" /\ config_last.cached_before # {}) =>
           /\ config_last.kind = "return"
           /\ config_last.result = config_last.cached_before
           /\ config_last.loads = 0
    /\ (config_last.op = "reload_config" /\ config_last.kind = "return") =>
           /\ config_last.loads = 1
           /\ \A c \in config_last.result :
                  \A o \in config_last.cached_before : c.id # o.id

\* get_config returned the instance of an earlier reload although SECRET_KEY
\* was changed after that reload
C21_Witness ==
    /\ config_last.op = "get_config"
    /\ config_last.cached_before # {}
    /\ config_loads >= 2
    /\ \E c \in config_last.result :
           c.secret_key # os_getenv(environ, "SECRET_KEY",
                                    "change-me-in-production")

\* non-empty texts of secrets
SecretTexts == {"s3cr3t", "***", "hunter2", "change-me-in-production"}

\* the entries of to_dict() that are text
TextEntries(d) == {d.environment, d.log_level, d.database_host, d.redis_host,
                   d.secret_key, d.database_password}

\* C22 as stated: to_dict gives the same dictionary for Configs that differ
\* only in non-empty secrets, and no entry of the dictionary is (so none
\* contains) the text of secret_key or of the database password.
C22_NoEntryIsTheSecret ==
    config_last.op = "to_dict" =>
        \A c \in config_last.result : \A d \in config_last.dict :
            /\ (c.secret_key # "" /\ c.database.password # "") =>
                   \A k \in SecretTexts, pw \in SecretTexts :
                       Config_to_dict([c EXCEPT !.secret_key = k,
                                                !.database.password = pw]) = d
            /\ c.secret_key # "" => c.secret_key \notin TextEntries(d)
            /\ c.database.password # "" =>
                   c.database.password \notin TextEntries(d)

\* C22, amended: to_dict gives the same dictionary for Configs that differ
\* only in non-empty secrets, and its secret_key and database_password
\* entries are '***' for a non-empty secret and '' for an empty one.
C22_SecretsMasked ==
    config_last.op = "to_dict" =>
        \A c \in config_last.result : \A d \in config_last.dict :
            /\ (c.secret_key # "" /\ c.database.password # "") =>
                   \A k \in SecretTexts, pw \in SecretTexts :
                       Config_to_dict([c EXCEPT !.secret_key = k,
                                                !.database.password = pw]) = d
            /\ d.secret_key = IF c.secret_key = "" THEN "" ELSE "***"
            /\ d.database_password =
                   IF c.database.password = "" THEN "" ELSE "***"

\* to_dict of a Config with SECRET_KEY 's3cr3t' and DATABASE_PASSWORD
\* 'hunter2'
C22_Witness ==
    /\ config_last.op = "to_dict"
    /\ \E c \in config_last.result :
           /\ c.secret_key = "s3cr3t"
           /\ c.database.password = "hunter2"

\* C28: after a reload_config in which load_from_env raised nothing is
\* cached (the instance cached before is not put back), and a get_config that
\* finds nothing cached creates a Config and loads it from the environment.
C28_FailedReloadLeavesNoConfig ==
    /\ (config_last.op = "reload_config" /\ config_last.kind = "raise") =>
           /\ config_cache = {}
           /\ config_last.result = {}
           /\ config_last.exc = "ValueError"
    /\ (config_last.op = "get_config" /\ config_last.cached_before = {}) =>
           /\ config_last.loads = 1
           /\ \A c \in config_last.result : c.id = config_loads

\* reload_config raised while an instance was cached
C28_Witness ==
    /\ config_last.op = "reload_config"
    /\ config_last.kind = "raise"
    /\ config_last.cached_before # {}
    /\ config_cache = {}

AnchorOps == {"EthereumAnchor.anchor_watermark", "EthereumAnchor.verify_anchor",
              "EthereumAnchor.get_anchor_history",
              "EthereumAnchor.estimate_gas"}

Innermost(a, k) ==
    IF \E j \in DOMAIN a : contexts[a[j]].context[k] # {}
    THEN LET j == CHOOSE j \in DOMAIN a :
                      /\ contexts[a[j]].context[k] # {}
                      /\ \A m \in DOMAIN a :
                             contexts[a[m]].context[k] # {} => m <= j
         IN  contexts[a[j]].context[k]
    ELSE {}

C26_FactoryRestored ==
    (discipline.distinct /\ active = <<>>) =>
        /\ log_factory = BaseFactory
        /\ log_last.active = <<>> => log_last.fields = NoFields

\* C27: creating a record inside nested with-blocks ends with a record, and
\* one record_factory closure has run per open with-block, also when a block
\* of an instance is opened inside a block of the same instance.
C27_RecordCreationTerminates ==
    discipline.nested =>
        /\ log_last.kind = "return"
        /\ log_last.calls = Len(log_last.active)

\* C29: the middleware of create_rate_limiter(requests_per_minute=n) passes
\* at most n requests on to the next handler within one minute.
C29_RateLimited ==
    \A l \in limiter : \A m \in 0..MaxMinutes :
        Cardinality({i \in DOMAIN forwarded : forwarded[i] = m})
            <= l.requests_per_minute

\* b begins with the bytes sig
StartsWith(b, sig) == Len(b) >= Len(sig) /\ SubSeq(b, 1, Len(sig)) = sig

\* C30: detect_format returns the format EXTENSION_MAP gives for the
\* lower-cased extension of a path, the format FORMAT_SIGNATURES gives for
\* the signature raw bytes begin with, and UNKNOWN only when the source has
\* neither such an extension nor such a signature.
C30_DetectFormat ==
    detected.calls = 1 =>
        LET src == detected.source
            ext == LowerChars(PathSuffix(src.path))
        IN  /\ (src.kind \in {"str", "Path"} /\ HasKey(EXTENSION_MAP, ext)) =>
                   detected.format = Lookup(EXTENSION_MAP, ext)
            /\ src.kind = "bytes" =>
                   \A i \in DOMAIN FORMAT_SIGNATURES :
                       StartsWith(src.data, FORMAT_SIGNATURES[i][1]) =>
                           detected.format = FORMAT_SIGNATURES[i][2]
            /\ detected.format = UNKNOWN =>
                   /\ ~(src.kind \in {"str", "Path"}
                            /\ HasKey(EXTENSION_MAP, ext))
                   /\ ~(src.kind = "bytes"
                            /\ \E i \in DOMAIN FORMAT_SIGNATURES :
                                   StartsWith(src.data,
                                              FORMAT_SIGNATURES[i][1]))

====
